---------------------------- MODULE Spec2Model ----------------------------
(***************************************************************************)
(* Model of backend/app.py: the URL resolver (convert_to_raw_url), the     *)
(* request handlers (process_github, clone_and_deploy) and the two         *)
(* operations that open a remote session (copy_to_vm, setup_github_pages). *)
(*                                                                         *)
(* A Python string is a sequence of tokens.  A token is a maximal run of   *)
(* characters that the code never looks inside ("github.com", "blob",      *)
(* "https:"), or one of the separators the code splits on ("/", "//",      *)
(* "?").  urlparse, str.strip, str.split, str.join and str.startswith are  *)
(* computed on these sequences the way Python computes them on characters. *)
(***************************************************************************)
EXTENDS Naturals, Sequences, FiniteSets, TLC

VARIABLES
  \* ---- URL resolver, driven on its own (SpecURL) ----
  u_scheme,     \* scheme token of the generated URL
  u_host,       \* host token of the generated URL
  u_segs,       \* the slash-separated pieces the URL's path was built from
  u_query,      \* whether the generated URL carries a query string
  github_url,   \* the URL string handed to convert_to_raw_url
  raw_url,      \* what convert_to_raw_url returned
  u_pc,         \* "idle" | "start" | "resolved" | "again"
  u_again,      \* what convert_to_raw_url returned for its own output
  \* ---- the temp-file steps of concurrent requests (SpecConc) ----
  c_pc,         \* per request: "idle" | "write" | "put" | "remove" | "done"
  c_filename,   \* per request: the filename its URL resolved to
  fs,           \* the temp directory: per filename, the payload held, 0 if absent
  c_put,        \* per request: sftp.put "none" | "ok" | "ioerror"
  c_sent,       \* per request: the payload it transferred, 0 if none
  \* ---- process-wide configuration, read once from the environment ----
  VM_IP,            \* TRUE when the variable is set (non-empty)
  VM_KEY_PATH,      \* TRUE when the variable is set (non-empty)
  VM_PASSWORD,      \* TRUE when the variable is set (non-empty)
  key_file_exists,  \* os.path.exists(VM_KEY_PATH)
  \* ---- one request ----
  handler,      \* "none" | "process_github" | "clone_and_deploy"
  data,         \* the fields present in request.json
  pc,           \* position in the handler and in the operation it calls
  fetched,      \* requests.get was called
  content,      \* response.content: where an HTML marker stands in it, if any
  content_type, \* response.headers["content-type"] of the fetch
  html_marker,  \* the first 1000 bytes hold "<!DOCTYPE html>" or "<html"
  file_content, \* "none" | "bytes" (response.content) | "str" (response.text)
  filename,     \* os.path.basename of the raw URL's path
  op,           \* "none" | "copy_to_vm" | "setup_github_pages"
  connected,    \* the local flag of both operations
  attempts,     \* every key load / connect made, in order
  ssh,          \* transport: "none" | "new" | "open" | "closed"
  sftp,         \* file-transfer sub-channel: "none" | "open" | "closed"
  temp,         \* the local temp file: "absent" | "partial" | "present"
  cmds,         \* every remote command run, in order, with its outcome
  put,          \* sftp.put: "none" | "ok" | "ioerror" | "error"
  pending,      \* the value a return statement left for after the finally
  ret,          \* what the operation returned
  response      \* the handler's HTTP response

urlVars == <<u_scheme, u_host, u_segs, u_query, u_pc, u_again>>
envVars == <<VM_IP, VM_KEY_PATH, VM_PASSWORD, key_file_exists>>
reqVars == <<handler, data, pc, fetched, content, content_type, html_marker, file_content,
             filename, response>>
opVars  == <<op, connected, attempts, ssh, sftp, temp, cmds, put, pending, ret>>

concVars == <<c_pc, c_filename, fs, c_put, c_sent>>

vars == <<urlVars, github_url, raw_url, envVars, reqVars, opVars, concVars>>

-----------------------------------------------------------------------------
(* Bounds of the model *)

\* Largest number of slash-separated pieces in a generated path.
MaxSegs == 6

\* Number of requests served at the same time.
NumRequests == 2

\* Largest number of path pieces in a generated repository URL.
MaxRepoSegs == 4

Requests == 1..NumRequests

\* The filenames concurrent requests may resolve to.
Filenames == {"index.html", "app.js"}

-----------------------------------------------------------------------------
(* Strings *)

\* Python's None.  convert_to_raw_url returns None or a non-empty string and
\* its caller tests "not raw_url", which is true of None and of "" alike.
None == <<>>

WEB_HOST == "github.com"
RAW_HOST == "raw.githubusercontent.com"

Hosts == {WEB_HOST, RAW_HOST, "example.com"}
Schemes == {"https:", "http:"}

\* One path piece: empty (two slashes in a row, or a trailing slash) or a word.
Pieces == {<<>>, <<"a">>, <<"blob">>, <<"tree">>}

RECURSIVE SeqsUpTo(_, _)
SeqsUpTo(S, n) ==
  IF n = 0 THEN {<<>>}
  ELSE LET shorter == SeqsUpTo(S, n - 1)
       IN  shorter \cup {Append(s, x) : s \in {t \in shorter : Len(t) = n - 1}, x \in S}

\* "/" + piece for every piece, concatenated: the path as written in the URL.
RECURSIVE PathOf(_)
PathOf(segs) ==
  IF segs = <<>> THEN <<>>
  ELSE <<"/">> \o Head(segs) \o PathOf(Tail(segs))

MakeUrl(scheme, host, segs, query) ==
  <<scheme, "//", host>> \o PathOf(segs) \o (IF query THEN <<"?", "q">> ELSE <<>>)

\* Index of the first occurrence of token t in s, or 0.
RECURSIVE IndexFrom(_, _, _)
IndexFrom(s, t, i) ==
  IF i > Len(s) THEN 0
  ELSE IF s[i] = t THEN i
  ELSE IndexFrom(s, t, i + 1)

IndexOf(s, t) == IndexFrom(s, t, 1)

\* urllib.parse.urlparse, for strings of the form scheme "//" netloc path ["?" query].
urlparse(url) ==
  LET hasNetloc == Len(url) >= 3 /\ url[2] = "//"
      rest      == IF hasNetloc THEN SubSeq(url, 4, Len(url)) ELSE <<>>
      q         == IndexOf(rest, "?")
  IN  [scheme |-> IF Len(url) >= 1 THEN url[1] ELSE "",
       netloc |-> IF hasNetloc THEN url[3] ELSE "",
       path   |-> IF q = 0 THEN rest ELSE SubSeq(rest, 1, q - 1),
       query  |-> IF q = 0 THEN <<>> ELSE SubSeq(rest, q + 1, Len(rest))]

\* A netloc with an opening bracket and no closing one.
BAD_HOST == "[github.com"

\* urlparse raises ValueError("Invalid IPv6 URL") for a netloc that holds one
\* of "[" and "]" without the other.
urlparse_raises(url) == Len(url) >= 3 /\ url[2] = "//" /\ url[3] = BAD_HOST

\* str.lstrip("/") and str.rstrip("/")
RECURSIVE LStrip(_)
LStrip(s) == IF s # <<>> /\ Head(s) = "/" THEN LStrip(Tail(s)) ELSE s

RECURSIVE RStrip(_)
RStrip(s) ==
  IF s # <<>> /\ s[Len(s)] = "/" THEN RStrip(SubSeq(s, 1, Len(s) - 1)) ELSE s

\* str.strip("/")
Strip(s) == RStrip(LStrip(s))

\* str.split("/"): "".split("/") is [""], "a//b".split("/") is ["a", "", "b"].
RECURSIVE Split(_)
Split(s) ==
  LET i == IndexOf(s, "/")
  IN  IF i = 0 THEN <<s>>
      ELSE <<SubSeq(s, 1, i - 1)>> \o Split(SubSeq(s, i + 1, Len(s)))

\* "/".join(parts)
RECURSIVE Join(_)
Join(parts) ==
  IF parts = <<>> THEN <<>>
  ELSE IF Len(parts) = 1 THEN parts[1]
  ELSE parts[1] \o <<"/">> \o Join(Tail(parts))

-----------------------------------------------------------------------------
(* convert_to_raw_url *)

\* A variant that joins everything after the repo: "blob" and the branch stay
\* in the path.
RawUrlOf_KeepsBlob(path_parts) ==
  LET owner     == path_parts[1]
      repo      == path_parts[2]
      file_path == Join(SubSeq(path_parts, 3, Len(path_parts)))
  IN  <<"https:", "//", RAW_HOST, "/">> \o owner \o <<"/">> \o repo \o <<"/">>
        \o file_path

\* The f-string of the blob branch.
RawUrlOf(path_parts) ==
  LET owner     == path_parts[1]
      repo      == path_parts[2]
      branch    == path_parts[4]
      file_path == Join(SubSeq(path_parts, 5, Len(path_parts)))
  IN  <<"https:", "//", RAW_HOST, "/">> \o owner \o <<"/">> \o repo \o <<"/">>
        \o branch \o <<"/">> \o file_path

\* A variant that takes the tree pattern for a file too.
IsBlobPattern_OrTree(path_parts) ==
  Len(path_parts) >= 5 /\ path_parts[3] \in {<<"blob">>, <<"tree">>}

\* len(path_parts) >= 5 and path_parts[2] == "blob"
IsBlobPattern(path_parts) == Len(path_parts) >= 5 /\ path_parts[3] = <<"blob">>

\* len(path_parts) >= 5 and path_parts[2] == "tree"
IsTreePattern(path_parts) == Len(path_parts) >= 5 /\ path_parts[3] = <<"tree">>

\* A variant without the first test: a raw-host URL is not from github.com
\* and is refused like any other host.
convert_to_raw_url_WebHostOnly(url) ==
  LET parsed == urlparse(url)
  IN  IF parsed.netloc = WEB_HOST
      THEN LET path_parts == Split(Strip(parsed.path))
           IN  IF IsBlobPattern(path_parts) THEN RawUrlOf(path_parts) ELSE None
      ELSE None

convert_to_raw_url(url) ==
  LET parsed == urlparse(url)
  IN  IF parsed.netloc = RAW_HOST THEN url
      ELSE IF parsed.netloc = WEB_HOST
      THEN LET path_parts == Split(Strip(parsed.path))
           IN  IF IsBlobPattern(path_parts) THEN RawUrlOf(path_parts)
               ELSE IF IsTreePattern(path_parts) THEN None
               ELSE None
      ELSE None

-----------------------------------------------------------------------------
(* SpecURL: convert_to_raw_url applied to every generated URL *)

\* No request is being served: the state of the request and of its operation
\* before anything has happened.
NoResult == [success |-> FALSE, message |-> "", detail |-> <<>>]
NoResponse == [status |-> 0, body |-> "", example |-> FALSE]

IdleOp ==
  /\ op = "none"
  /\ connected = FALSE
  /\ attempts = <<>>
  /\ ssh = "none"
  /\ sftp = "none"
  /\ temp = "absent"
  /\ cmds = <<>>
  /\ put = "none"
  /\ pending = NoResult
  /\ ret = NoResult

\* A payload that holds no HTML marker.
NoMarker == [marker |-> <<>>, at |-> 0]

IdleRequest ==
  /\ fetched = FALSE
  /\ content = NoMarker
  /\ content_type = <<>>
  /\ html_marker = FALSE
  /\ file_content = "none"
  /\ filename = <<>>
  /\ response = NoResponse

IdleConc ==
  /\ c_pc = [r \in Requests |-> "idle"]
  /\ c_filename = [r \in Requests |-> "index.html"]
  /\ fs = [f \in Filenames |-> 0]
  /\ c_put = [r \in Requests |-> "none"]
  /\ c_sent = [r \in Requests |-> 0]

IdleUrl ==
  /\ u_scheme = ""
  /\ u_host = ""
  /\ u_segs = <<>>
  /\ u_query = FALSE
  /\ u_pc = "idle"
  /\ u_again = None

InitURL ==
  /\ u_scheme \in Schemes
  /\ u_host \in Hosts
  /\ u_segs \in SeqsUpTo(Pieces, MaxSegs)
  /\ u_query \in BOOLEAN
  /\ github_url = MakeUrl(u_scheme, u_host, u_segs, u_query)
  /\ raw_url = None
  /\ u_pc = "start"
  /\ u_again = None
  /\ VM_IP = FALSE /\ VM_KEY_PATH = FALSE /\ VM_PASSWORD = FALSE
  /\ key_file_exists = FALSE
  /\ handler = "none" /\ data = {} /\ pc = "idle"
  /\ IdleRequest
  /\ IdleOp
  /\ IdleConc

Resolve ==
  /\ u_pc = "start"
  /\ raw_url' = convert_to_raw_url(github_url)
  /\ u_pc' = "resolved"
  /\ UNCHANGED <<u_scheme, u_host, u_segs, u_query, u_again, github_url>>
  /\ UNCHANGED <<envVars, reqVars, opVars, concVars>>

\* convert_to_raw_url(raw_url): the URL the resolver returned is resolved again.
ResolveAgain ==
  /\ u_pc = "resolved"
  /\ raw_url # None
  /\ u_again' = convert_to_raw_url(raw_url)
  /\ u_pc' = "again"
  /\ UNCHANGED <<u_scheme, u_host, u_segs, u_query, github_url, raw_url>>
  /\ UNCHANGED <<envVars, reqVars, opVars, concVars>>

NextURL == Resolve \/ ResolveAgain

SpecURL == InitURL /\ [][NextURL]_vars

-----------------------------------------------------------------------------
(* The request handlers *)

\* The URLs a request may carry.
seg_a == <<"a">>
DOT_GIT == <<"a.git">>

SampleUrls ==
  { MakeUrl("https:", WEB_HOST, <<seg_a, seg_a, <<"blob">>, seg_a, seg_a>>, FALSE),
    MakeUrl("https:", WEB_HOST, <<seg_a, seg_a, <<"tree">>, seg_a, seg_a>>, FALSE),
    MakeUrl("https:", RAW_HOST, <<seg_a, seg_a, seg_a, seg_a>>, FALSE),
    MakeUrl("https:", RAW_HOST, <<seg_a, seg_a, seg_a, <<>>>>, FALSE),
    MakeUrl("https:", WEB_HOST, <<seg_a, seg_a>>, FALSE),
    MakeUrl("http:", WEB_HOST, <<seg_a, DOT_GIT, <<>>>>, FALSE),
    MakeUrl("https:", WEB_HOST, <<seg_a, seg_a, seg_a>>, FALSE),
    MakeUrl("https:", "example.com", <<seg_a, seg_a>>, FALSE),
    MakeUrl("https:", BAD_HOST, <<seg_a, seg_a, <<"blob">>, seg_a, seg_a>>, FALSE) }

\* The URLs a clone-and-deploy request may carry: the ones above, and every
\* URL of up to MaxRepoSegs pieces, each piece empty or a name.
RepoSampleUrls ==
  SampleUrls \cup
    { MakeUrl(s, h, segs, q) :
        s \in Schemes, h \in Hosts, segs \in SeqsUpTo({<<>>, seg_a}, MaxRepoSegs),
        q \in BOOLEAN }

\* Values of the content-type header: "text/html", "text/html; charset=utf-8",
\* "text/plain", "application/octet-stream", and "" for a missing header.
ContentTypes ==
  { <<"text/", "html">>,
    <<"text/", "html", "; charset=utf-8">>,
    <<"text/", "plain">>,
    <<"application/octet-stream">>,
    <<>> }

\* str.startswith
StartsWith(s, prefix) ==
  Len(s) >= Len(prefix) /\ SubSeq(s, 1, Len(prefix)) = prefix

\* Index of the last occurrence of token t in s, or 0.
RECURSIVE LastIndexFrom(_, _, _)
LastIndexFrom(s, t, i) ==
  IF i = 0 THEN 0
  ELSE IF s[i] = t THEN i
  ELSE LastIndexFrom(s, t, i - 1)

\* os.path.basename: what follows the last "/".
basename(path) == SubSeq(path, LastIndexFrom(path, "/", Len(path)) + 1, Len(path))

\* jsonify(...), status
Respond(status, body, example) ==
  /\ response' = [status |-> status, body |-> body, example |-> example]
  /\ pc' = "done"

MSG_URL_REQUIRED == "GitHub URL is required"
MSG_INVALID_URL == "Invalid GitHub URL format. Please provide a direct link to a file."
MSG_HTML == "Received HTML instead of file content. Please use a direct link to a raw file."
MSG_FETCH_FAILED == "Failed to fetch GitHub content"
MSG_COPIED == "Successfully copied"
MSG_FIELDS_REQUIRED == "GitHub URL and project name are required"
MSG_INVALID_REPO == "Invalid GitHub repository URL format"
MSG_DEPLOYED == "Repository cloned and GitHub Pages configured successfully"
\* The framework's answer to an exception that leaves the handler.
MSG_INTERNAL == "Internal Server Error"

\* A variant that compares instead: content_type == "text/html".
IsHtmlContentType_Exact(ct) == ct = <<"text/", "html">>

\* content_type.startswith("text/html")
IsHtmlContentType(ct) == StartsWith(ct, <<"text/", "html">>)

\* not (text/* or application/json or application/xml)
IsBinary(ct) ==
  ~(\/ StartsWith(ct, <<"text/">>)
    \/ StartsWith(ct, <<"application/json">>)
    \/ StartsWith(ct, <<"application/xml">>))

\* The two markers the handler looks for, and their lengths in bytes.
DOCTYPE == <<"<!DOCTYPE html>">>
HTML_TAG == <<"<html">>

MarkerLen(m) == IF m = DOCTYPE THEN 15 ELSE 5

\* response.content[:1000]
PREVIEW_BYTES == 1000

\* The payloads a fetch may return: without a marker, or with one marker at
\* byte offset `at`: at the start, ending with the last byte of the preview,
\* or one byte further on.
Payloads ==
  {NoMarker} \cup
    UNION { { [marker |-> m, at |-> a] :
                a \in {0, PREVIEW_BYTES - MarkerLen(m),
                          PREVIEW_BYTES - MarkerLen(m) + 1} } :
            m \in {DOCTYPE, HTML_TAG} }

\* marker in response.content[:1000].decode("utf-8", errors="ignore"): the
\* whole marker lies within the slice.
InPreview(c, m) == c.marker = m /\ c.at + MarkerLen(m) <= PREVIEW_BYTES

\* A variant that looks for the doctype only.
HasHtmlMarker_DoctypeOnly(c) == InPreview(c, DOCTYPE)

\* "<!DOCTYPE html>" in content_preview or "<html" in content_preview
HasHtmlMarker(c) == InPreview(c, DOCTYPE) \/ InPreview(c, HTML_TAG)

\* process_github up to the fetch: the request's fields, then the URL.
PG_Validate ==
  /\ handler = "process_github" /\ pc = "start"
  /\ IF data = {} \/ "github_url" \notin data
     THEN /\ Respond(400, MSG_URL_REQUIRED, TRUE)
          /\ UNCHANGED raw_url
     ELSE IF urlparse_raises(github_url)
     THEN \* convert_to_raw_url is called outside the try: the ValueError
          \* leaves the handler.
          /\ Respond(500, MSG_INTERNAL, FALSE)
          /\ UNCHANGED raw_url
     ELSE /\ raw_url' = convert_to_raw_url(github_url)
          /\ IF raw_url' = None
             THEN Respond(400, MSG_INVALID_URL, TRUE)
             ELSE pc' = "fetch" /\ UNCHANGED response
  /\ UNCHANGED <<handler, data, fetched, content, content_type, html_marker, file_content, filename>>
  /\ UNCHANGED <<urlVars, github_url, envVars, opVars, concVars>>

\* requests.get and raise_for_status
PG_Fetch ==
  /\ handler = "process_github" /\ pc = "fetch"
  /\ \/ /\ Respond(500, MSG_FETCH_FAILED, FALSE)
        /\ UNCHANGED <<content, content_type, html_marker>>
     \/ /\ content_type' \in ContentTypes
        /\ content' \in Payloads
        /\ html_marker' = HasHtmlMarker(content')
        /\ pc' = "inspect"
        /\ UNCHANGED response
  /\ fetched' = TRUE
  /\ UNCHANGED <<handler, data, file_content, filename>>
  /\ UNCHANGED <<urlVars, github_url, raw_url, envVars, opVars, concVars>>

\* The two HTML checks, then the call of copy_to_vm.
PG_Inspect ==
  /\ handler = "process_github" /\ pc = "inspect"
  /\ IF IsHtmlContentType(content_type) \/ HasHtmlMarker(content)
     THEN /\ Respond(400, MSG_HTML, FALSE)
          /\ UNCHANGED <<file_content, filename, op>>
     ELSE /\ file_content' = IF IsBinary(content_type) THEN "bytes" ELSE "str"
          /\ filename' = basename(urlparse(raw_url).path)
          /\ op' = "copy_to_vm"
          /\ pc' = "c_begin"
          /\ UNCHANGED response
  /\ UNCHANGED <<handler, data, fetched, content, content_type, html_marker>>
  /\ UNCHANGED <<connected, attempts, ssh, sftp, temp, cmds, put, pending, ret>>
  /\ UNCHANGED <<urlVars, github_url, raw_url, envVars, concVars>>

\* success, message = copy_to_vm(...)
PG_Respond ==
  /\ handler = "process_github" /\ pc = "return"
  /\ IF ret.success
     THEN Respond(200, MSG_COPIED, FALSE)
     ELSE Respond(500, ret.message, FALSE)
  /\ UNCHANGED <<handler, data, fetched, content, content_type, html_marker, file_content, filename>>
  /\ UNCHANGED <<urlVars, github_url, raw_url, envVars, opVars, concVars>>

\* re.match(r"^https?://github\.com/[\w-]+/[\w.-]+/?$", url)
OwnerWords == {"a", "blob", "tree"}
RepoWords == OwnerWords \cup {"a.git"}

\* A variant whose pattern lacks the final "$": re.match anchors the start
\* only, and whatever follows the repo name is accepted.
is_valid_github_repo_url_Unanchored(url) ==
  /\ Len(url) >= 7
  /\ url[1] \in {"https:", "http:"}
  /\ url[2] = "//"
  /\ url[3] = WEB_HOST
  /\ url[4] = "/"
  /\ url[5] \in OwnerWords
  /\ url[6] = "/"
  /\ url[7] \in RepoWords

is_valid_github_repo_url(url) ==
  /\ Len(url) \in {7, 8}
  /\ url[1] \in {"https:", "http:"}
  /\ url[2] = "//"
  /\ url[3] = WEB_HOST
  /\ url[4] = "/"
  /\ url[5] \in OwnerWords
  /\ url[6] = "/"
  /\ url[7] \in RepoWords
  /\ Len(url) = 8 => url[8] = "/"

\* clone_and_deploy up to the call of setup_github_pages.
CD_Validate ==
  /\ handler = "clone_and_deploy" /\ pc = "start"
  /\ IF data = {} \/ "github_url" \notin data \/ "project_name" \notin data
     THEN Respond(400, MSG_FIELDS_REQUIRED, TRUE) /\ UNCHANGED op
     ELSE IF ~is_valid_github_repo_url(github_url)
     THEN Respond(400, MSG_INVALID_REPO, TRUE) /\ UNCHANGED op
     ELSE /\ op' = "setup_github_pages"
          /\ pc' = "p_begin"
          /\ UNCHANGED response
  /\ UNCHANGED <<handler, data, fetched, content, content_type, html_marker, file_content, filename>>
  /\ UNCHANGED <<connected, attempts, ssh, sftp, temp, cmds, put, pending, ret>>
  /\ UNCHANGED <<urlVars, github_url, raw_url, envVars, concVars>>

\* success, message = setup_github_pages(...)
CD_Respond ==
  /\ handler = "clone_and_deploy" /\ pc = "return"
  /\ IF ret.success
     THEN Respond(200, MSG_DEPLOYED, FALSE)
     ELSE Respond(500, ret.message, FALSE)
  /\ UNCHANGED <<handler, data, fetched, content, content_type, html_marker, file_content, filename>>
  /\ UNCHANGED <<urlVars, github_url, raw_url, envVars, opVars, concVars>>

-----------------------------------------------------------------------------
(* What both operations share *)

\* return success, message: the operation ends.  detail is the text the
\* message embeds: str(e) of the exception caught, or the stderr read.
Return(success, message, detail) ==
  /\ ret' = [success |-> success, message |-> message, detail |-> detail]
  /\ pc' = "return"

\* A variant that drops the exception's text from the message.
Exc_NoText(call) == <<>>

\* str(e) of the exception the named call raised.
Exc(call) == <<"exception", call>>

\* One key load followed by ssh.connect, or one ssh.connect with the password.
\* timeout is <<seconds>>, or <<>> when connect is called without one.
Attempt(method, timeout, outcome) ==
  [method |-> method, timeout |-> timeout, outcome |-> outcome]

\* from_private_key_file raises, or connect raises, or connect returns.
KeyOutcomes == {"load_error", "connect_error", "connected"}
PasswordOutcomes == {"connect_error", "connected"}

\* exec_command and the reads that follow it: exit status 0, exit status
\* non-zero, or an exception out of exec_command / read / decode.
DiagOutcomes == {"exit0", "nonzero", "raise"}

Command(cmd, outcome) == [cmd |-> cmd, outcome |-> outcome]

\* A variant that drops the test of connected: "if VM_PASSWORD".
ShouldTryPassword_Always(conn, pw) == pw

\* if not connected and VM_PASSWORD
ShouldTryPassword(conn, pw) == ~conn /\ pw

-----------------------------------------------------------------------------
(* copy_to_vm *)

CONNECT_TIMEOUT == 10

MSG_NO_IP == "VM_IP environment variable not set"
MSG_KEY_MISSING == "Key file does not exist"
MSG_AUTH_FAILED == "Failed to authenticate with VM. Check VM_KEY_PATH or VM_PASSWORD"
MSG_SFTP_IOERROR == "SFTP IOError"
MSG_SFTP_ERROR == "SFTP error"
MSG_COPY_OK == "File copied successfully"
MSG_COPY_ERROR == "Error copying file to VM"

\* A variant that goes on without a session.
NoSession_Ignored(conn) == FALSE

\* if not connected
NoSession(conn) == ~conn

\* The VM_IP check, SSHClient(), and the key-file check.
C_Begin ==
  /\ op = "copy_to_vm" /\ pc = "c_begin"
  /\ IF ~VM_IP
     THEN Return(FALSE, MSG_NO_IP, <<>>) /\ UNCHANGED ssh
     ELSE /\ ssh' = "new"
          /\ IF VM_KEY_PATH
             THEN IF ~key_file_exists
                  THEN Return(FALSE, MSG_KEY_MISSING, <<>>)
                  ELSE pc' = "c_rsa" /\ UNCHANGED ret
             ELSE pc' = "c_password" /\ UNCHANGED ret
  /\ UNCHANGED <<op, connected, attempts, sftp, temp, cmds, put, pending>>
  /\ UNCHANGED <<handler, data, fetched, content, content_type, html_marker, file_content, filename, response>>
  /\ UNCHANGED <<urlVars, github_url, raw_url, envVars, concVars>>

\* RSAKey.from_private_key_file, ssh.connect(pkey, timeout=10)
C_TryRSA ==
  /\ op = "copy_to_vm" /\ pc = "c_rsa"
  /\ \E o \in KeyOutcomes :
       /\ attempts' = Append(attempts, Attempt("rsa", <<CONNECT_TIMEOUT>>, o))
       /\ IF o = "connected"
          THEN connected' = TRUE /\ ssh' = "open" /\ pc' = "c_password"
          ELSE pc' = "c_ed25519" /\ UNCHANGED <<connected, ssh>>
  /\ UNCHANGED <<op, sftp, temp, cmds, put, pending, ret>>
  /\ UNCHANGED <<handler, data, fetched, content, content_type, html_marker, file_content, filename, response>>
  /\ UNCHANGED <<urlVars, github_url, raw_url, envVars, concVars>>

\* Ed25519Key.from_private_key_file, ssh.connect(pkey, timeout=10)
C_TryEd25519 ==
  /\ op = "copy_to_vm" /\ pc = "c_ed25519"
  /\ \E o \in KeyOutcomes :
       /\ attempts' = Append(attempts, Attempt("ed25519", <<CONNECT_TIMEOUT>>, o))
       /\ IF o = "connected"
          THEN connected' = TRUE /\ ssh' = "open"
          ELSE UNCHANGED <<connected, ssh>>
  /\ pc' = "c_password"
  /\ UNCHANGED <<op, sftp, temp, cmds, put, pending, ret>>
  /\ UNCHANGED <<handler, data, fetched, content, content_type, html_marker, file_content, filename, response>>
  /\ UNCHANGED <<urlVars, github_url, raw_url, envVars, concVars>>

\* ssh.connect(password, timeout=10) when no key connected; its exception is
\* logged and swallowed.
C_TryPassword ==
  /\ op = "copy_to_vm" /\ pc = "c_password"
  /\ IF ShouldTryPassword(connected, VM_PASSWORD)
     THEN \E o \in PasswordOutcomes :
            /\ attempts' = Append(attempts, Attempt("password", <<CONNECT_TIMEOUT>>, o))
            /\ IF o = "connected"
               THEN connected' = TRUE /\ ssh' = "open"
               ELSE UNCHANGED <<connected, ssh>>
     ELSE UNCHANGED <<attempts, connected, ssh>>
  /\ pc' = "c_check"
  /\ UNCHANGED <<op, sftp, temp, cmds, put, pending, ret>>
  /\ UNCHANGED <<handler, data, fetched, content, content_type, html_marker, file_content, filename, response>>
  /\ UNCHANGED <<urlVars, github_url, raw_url, envVars, concVars>>

\* if not connected: return False, "Failed to authenticate ..."
C_CheckConnected ==
  /\ op = "copy_to_vm" /\ pc = "c_check"
  /\ IF NoSession(connected)
     THEN Return(FALSE, MSG_AUTH_FAILED, <<>>)
     ELSE pc' = "c_open_sftp" /\ UNCHANGED ret
  /\ UNCHANGED <<op, connected, attempts, ssh, sftp, temp, cmds, put, pending>>
  /\ UNCHANGED <<handler, data, fetched, content, content_type, html_marker, file_content, filename, response>>
  /\ UNCHANGED <<urlVars, github_url, raw_url, envVars, concVars>>

\* sftp = ssh.open_sftp(); an exception goes to the outermost except.
C_OpenSftp ==
  /\ op = "copy_to_vm" /\ pc = "c_open_sftp"
  /\ \/ sftp' = "open" /\ pc' = "c_write_temp" /\ UNCHANGED ret
     \/ Return(FALSE, MSG_COPY_ERROR, Exc("open_sftp")) /\ UNCHANGED sftp
  /\ UNCHANGED <<op, connected, attempts, ssh, temp, cmds, put, pending>>
  /\ UNCHANGED <<handler, data, fetched, content, content_type, html_marker, file_content, filename, response>>
  /\ UNCHANGED <<urlVars, github_url, raw_url, envVars, concVars>>

\* with open(temp_path, write_mode) as f: f.write(file_content).  open
\* creates the file; with an empty filename temp_path is the temp directory
\* itself and open raises.  An exception goes to the outermost except.
C_WriteTemp ==
  /\ op = "copy_to_vm" /\ pc = "c_write_temp"
  /\ \/ /\ filename # <<>>
        /\ temp' = "present"
        /\ pc' = "c_diag_list"
        /\ UNCHANGED ret
     \/ /\ UNCHANGED temp
        /\ Return(FALSE, MSG_COPY_ERROR, Exc("open"))
     \/ /\ filename # <<>>
        /\ temp' = "partial"
        /\ Return(FALSE, MSG_COPY_ERROR, Exc("write"))
  /\ UNCHANGED <<op, connected, attempts, ssh, sftp, cmds, put, pending>>
  /\ UNCHANGED <<handler, data, fetched, content, content_type, html_marker, file_content, filename, response>>
  /\ UNCHANGED <<urlVars, github_url, raw_url, envVars, concVars>>

\* A variant without the try/except around the diagnostic commands: only
\* their exit statuses are dropped.
DiagSwallows_ExitOnly(o) == o # "raise"

\* except Exception: logger.warning(...) around each diagnostic command: every
\* outcome of a diagnostic step, an exception included, is logged and dropped.
DiagSwallows(o) == TRUE

MSG_SFTP_OP_FAILED == "SFTP operation failed"

\* A diagnostic step that ran with outcome o: go on at `next`, or (were the
\* exception not swallowed) to the except of the enclosing try and its finally.
AfterDiag(o, next) ==
  IF DiagSwallows(o)
  THEN pc' = next /\ UNCHANGED pending
  ELSE /\ pending' = [success |-> FALSE, message |-> MSG_SFTP_OP_FAILED,
                      detail |-> Exc("exec_command")]
       /\ pc' = "c_remove_temp"

\* ssh.exec_command("ls -la ..."), stdout.read(), stderr.read()
C_DiagList ==
  /\ op = "copy_to_vm" /\ pc = "c_diag_list"
  /\ \E o \in DiagOutcomes :
       /\ cmds' = Append(cmds, Command("ls -la", o))
       /\ AfterDiag(o, IF o = "raise" THEN "c_diag_mkdir" ELSE "c_diag_probe")
  /\ UNCHANGED <<op, connected, attempts, ssh, sftp, temp, put, ret>>
  /\ UNCHANGED <<handler, data, fetched, content, content_type, html_marker, file_content, filename, response>>
  /\ UNCHANGED <<urlVars, github_url, raw_url, envVars, concVars>>

\* ssh.exec_command("touch ... && rm ..."), recv_exit_status()
C_DiagProbe ==
  /\ op = "copy_to_vm" /\ pc = "c_diag_probe"
  /\ \E o \in DiagOutcomes :
       /\ cmds' = Append(cmds, Command("touch && rm", o))
       /\ AfterDiag(o, "c_diag_mkdir")
  /\ UNCHANGED <<op, connected, attempts, ssh, sftp, temp, put, ret>>
  /\ UNCHANGED <<handler, data, fetched, content, content_type, html_marker, file_content, filename, response>>
  /\ UNCHANGED <<urlVars, github_url, raw_url, envVars, concVars>>

\* ssh.exec_command("mkdir -p ..."), recv_exit_status()
C_DiagMkdir ==
  /\ op = "copy_to_vm" /\ pc = "c_diag_mkdir"
  /\ \E o \in DiagOutcomes :
       /\ cmds' = Append(cmds, Command("mkdir -p", o))
       /\ AfterDiag(o, "c_put")
  /\ UNCHANGED <<op, connected, attempts, ssh, sftp, temp, put, ret>>
  /\ UNCHANGED <<handler, data, fetched, content, content_type, html_marker, file_content, filename, response>>
  /\ UNCHANGED <<urlVars, github_url, raw_url, envVars, concVars>>

\* sftp.put(temp_path, destination): it returns, raises IOError, or raises
\* something else.  The two returns of the handlers wait for the finally.
C_Put ==
  /\ op = "copy_to_vm" /\ pc = "c_put"
  /\ \/ /\ put' = "ok"
        /\ pending' = [success |-> TRUE, message |-> MSG_COPY_OK, detail |-> <<>>]
        /\ pc' = "c_remove_temp"
     \/ /\ put' = "ioerror"
        /\ pc' = "c_diag_stat"
        /\ UNCHANGED pending
     \/ /\ put' = "error"
        /\ pending' = [success |-> FALSE, message |-> MSG_SFTP_ERROR, detail |-> Exc("put")]
        /\ pc' = "c_remove_temp"
  /\ UNCHANGED <<op, connected, attempts, ssh, sftp, temp, cmds, ret>>
  /\ UNCHANGED <<handler, data, fetched, content, content_type, html_marker, file_content, filename, response>>
  /\ UNCHANGED <<urlVars, github_url, raw_url, envVars, concVars>>

\* except IOError: ssh.exec_command("stat ..."), then return False, "SFTP IOError ..."
C_DiagStat ==
  /\ op = "copy_to_vm" /\ pc = "c_diag_stat"
  /\ \E o \in DiagOutcomes :
       /\ cmds' = Append(cmds, Command("stat", o))
       /\ IF DiagSwallows(o)
          THEN pending' = [success |-> FALSE, message |-> MSG_SFTP_IOERROR,
                           detail |-> Exc("put")]
          ELSE pending' = [success |-> FALSE, message |-> MSG_SFTP_OP_FAILED,
                           detail |-> Exc("exec_command")]
  /\ pc' = "c_remove_temp"
  /\ UNCHANGED <<op, connected, attempts, ssh, sftp, temp, put, ret>>
  /\ UNCHANGED <<handler, data, fetched, content, content_type, html_marker, file_content, filename, response>>
  /\ UNCHANGED <<urlVars, github_url, raw_url, envVars, concVars>>

\* finally: os.remove(temp_path); its exception is logged and swallowed.
C_RemoveTemp ==
  /\ op = "copy_to_vm" /\ pc = "c_remove_temp"
  /\ \/ temp' = "absent"
     \/ UNCHANGED temp
  /\ pc' = "c_close_sftp"
  /\ UNCHANGED <<op, connected, attempts, ssh, sftp, cmds, put, pending, ret>>
  /\ UNCHANGED <<handler, data, fetched, content, content_type, html_marker, file_content, filename, response>>
  /\ UNCHANGED <<urlVars, github_url, raw_url, envVars, concVars>>

\* finally: sftp.close(); an exception leaves the finally for the outermost
\* except, and ssh.close() is not reached.
C_CloseSftp ==
  /\ op = "copy_to_vm" /\ pc = "c_close_sftp"
  /\ \/ sftp' = "closed" /\ pc' = "c_close_ssh" /\ UNCHANGED ret
     \/ Return(FALSE, MSG_COPY_ERROR, Exc("sftp.close")) /\ UNCHANGED sftp
  /\ UNCHANGED <<op, connected, attempts, ssh, temp, cmds, put, pending>>
  /\ UNCHANGED <<handler, data, fetched, content, content_type, html_marker, file_content, filename, response>>
  /\ UNCHANGED <<urlVars, github_url, raw_url, envVars, concVars>>

\* finally: ssh.close(), then the pending return (or return True, ...).
C_CloseSsh ==
  /\ op = "copy_to_vm" /\ pc = "c_close_ssh"
  /\ \/ ssh' = "closed" /\ Return(pending.success, pending.message, pending.detail)
     \/ Return(FALSE, MSG_COPY_ERROR, Exc("ssh.close")) /\ UNCHANGED ssh
  /\ UNCHANGED <<op, connected, attempts, sftp, temp, cmds, put, pending>>
  /\ UNCHANGED <<handler, data, fetched, content, content_type, html_marker, file_content, filename, response>>
  /\ UNCHANGED <<urlVars, github_url, raw_url, envVars, concVars>>

-----------------------------------------------------------------------------
(* setup_github_pages *)

\* len(commands)
NumCommands == 12

MSG_PAGES_AUTH_FAILED == "Failed to authenticate with VM"
MSG_CMD_FAILED == "Command failed"
MSG_PAGES_ERROR == "Error setting up GitHub Pages"

\* A plan step: exit status 0; exit status non-zero with a stderr that reads
\* and decodes; exit status non-zero with a stderr whose read or UTF-8 decode
\* raises; or an exception out of exec_command / recv_exit_status.
StepOutcomes == {"exit0", "nonzero", "nonzero_unreadable", "raise"}

\* stdout.channel.recv_exit_status()
ExitStatus(o) == IF o = "exit0" THEN 0 ELSE 1

\* stderr.read().decode("utf-8") of step i, and the message built from it:
\* f"Command failed: {cmd}\nError: {error}"
CommandError(i) == <<"cmd", i, "stderr", i>>

\* A variant whose loop never returns on an exit status.
HaltsPlan_Never(exit_status) == FALSE

\* if exit_status != 0
HaltsPlan(exit_status) == exit_status # 0

\* A variant that runs the command it ran last once more.
StepIndex_Repeat(done) == IF done = 0 THEN 1 ELSE done

\* for cmd in commands: after `done` commands, the next one of the list.
StepIndex(done) == done + 1

\* if not connected and VM_PASSWORD
P_ShouldTryPassword(conn, pw) == ~conn /\ pw

\* The VM_IP check and SSHClient().  The key file is not looked for.
P_Begin ==
  /\ op = "setup_github_pages" /\ pc = "p_begin"
  /\ IF ~VM_IP
     THEN Return(FALSE, MSG_NO_IP, <<>>) /\ UNCHANGED ssh
     ELSE /\ ssh' = "new"
          /\ pc' = IF VM_KEY_PATH THEN "p_rsa" ELSE "p_password"
          /\ UNCHANGED ret
  /\ UNCHANGED <<op, connected, attempts, sftp, temp, cmds, put, pending>>
  /\ UNCHANGED <<handler, data, fetched, content, content_type, html_marker, file_content, filename, response>>
  /\ UNCHANGED <<urlVars, github_url, raw_url, envVars, concVars>>

\* What a key attempt can do: a missing key file cannot be loaded.
P_KeyOutcomes == IF key_file_exists THEN KeyOutcomes ELSE {"load_error"}

\* RSAKey.from_private_key_file, ssh.connect(pkey) under a bare except
P_TryRSA ==
  /\ op = "setup_github_pages" /\ pc = "p_rsa"
  /\ \E o \in P_KeyOutcomes :
       /\ attempts' = Append(attempts, Attempt("rsa", <<>>, o))
       /\ IF o = "connected"
          THEN connected' = TRUE /\ ssh' = "open" /\ pc' = "p_password"
          ELSE pc' = "p_ed25519" /\ UNCHANGED <<connected, ssh>>
  /\ UNCHANGED <<op, sftp, temp, cmds, put, pending, ret>>
  /\ UNCHANGED <<handler, data, fetched, content, content_type, html_marker, file_content, filename, response>>
  /\ UNCHANGED <<urlVars, github_url, raw_url, envVars, concVars>>

\* Ed25519Key.from_private_key_file, ssh.connect(pkey) under a bare except
P_TryEd25519 ==
  /\ op = "setup_github_pages" /\ pc = "p_ed25519"
  /\ \E o \in P_KeyOutcomes :
       /\ attempts' = Append(attempts, Attempt("ed25519", <<>>, o))
       /\ IF o = "connected"
          THEN connected' = TRUE /\ ssh' = "open"
          ELSE UNCHANGED <<connected, ssh>>
  /\ pc' = "p_password"
  /\ UNCHANGED <<op, sftp, temp, cmds, put, pending, ret>>
  /\ UNCHANGED <<handler, data, fetched, content, content_type, html_marker, file_content, filename, response>>
  /\ UNCHANGED <<urlVars, github_url, raw_url, envVars, concVars>>

\* ssh.connect(password) with no try of its own: its exception goes to the
\* outermost except.
P_TryPassword ==
  /\ op = "setup_github_pages" /\ pc = "p_password"
  /\ IF P_ShouldTryPassword(connected, VM_PASSWORD)
     THEN \E o \in PasswordOutcomes :
            /\ attempts' = Append(attempts, Attempt("password", <<>>, o))
            /\ IF o = "connected"
               THEN /\ connected' = TRUE /\ ssh' = "open"
                    /\ pc' = "p_check" /\ UNCHANGED ret
               ELSE /\ Return(FALSE, MSG_PAGES_ERROR, Exc("connect"))
                    /\ UNCHANGED <<connected, ssh>>
     ELSE pc' = "p_check" /\ UNCHANGED <<attempts, connected, ssh, ret>>
  /\ UNCHANGED <<op, sftp, temp, cmds, put, pending>>
  /\ UNCHANGED <<handler, data, fetched, content, content_type, html_marker, file_content, filename, response>>
  /\ UNCHANGED <<urlVars, github_url, raw_url, envVars, concVars>>

\* if not connected: return False, "Failed to authenticate with VM"
P_CheckConnected ==
  /\ op = "setup_github_pages" /\ pc = "p_check"
  /\ IF ~connected
     THEN Return(FALSE, MSG_PAGES_AUTH_FAILED, <<>>)
     ELSE pc' = "p_step" /\ UNCHANGED ret
  /\ UNCHANGED <<op, connected, attempts, ssh, sftp, temp, cmds, put, pending>>
  /\ UNCHANGED <<handler, data, fetched, content, content_type, html_marker, file_content, filename, response>>
  /\ UNCHANGED <<urlVars, github_url, raw_url, envVars, concVars>>

\* One turn of "for cmd in commands": exec_command, recv_exit_status, and on a
\* non-zero status the read of stderr and the return.  The loop ends after
\* the last command.
P_Step ==
  /\ op = "setup_github_pages" /\ pc = "p_step"
  /\ LET i == StepIndex(Len(cmds))
     IN  \E o \in StepOutcomes :
           /\ cmds' = Append(cmds, Command(i, o))
           /\ IF o = "raise"
              THEN Return(FALSE, MSG_PAGES_ERROR, Exc("exec_command"))
              ELSE IF HaltsPlan(ExitStatus(o))
              THEN IF o = "nonzero_unreadable"
                   THEN Return(FALSE, MSG_PAGES_ERROR, Exc("stderr.read"))
                   ELSE Return(FALSE, MSG_CMD_FAILED, CommandError(i))
              ELSE /\ pc' = IF i >= NumCommands THEN "p_close" ELSE "p_step"
                   /\ UNCHANGED ret
  /\ UNCHANGED <<op, connected, attempts, ssh, sftp, temp, put, pending>>
  /\ UNCHANGED <<handler, data, fetched, content, content_type, html_marker, file_content, filename, response>>
  /\ UNCHANGED <<urlVars, github_url, raw_url, envVars, concVars>>

\* ssh.close() after the loop, then return True, ...
P_Close ==
  /\ op = "setup_github_pages" /\ pc = "p_close"
  /\ \/ ssh' = "closed" /\ Return(TRUE, MSG_DEPLOYED, <<>>)
     \/ Return(FALSE, MSG_PAGES_ERROR, Exc("ssh.close")) /\ UNCHANGED ssh
  /\ UNCHANGED <<op, connected, attempts, sftp, temp, cmds, put, pending>>
  /\ UNCHANGED <<handler, data, fetched, content, content_type, html_marker, file_content, filename, response>>
  /\ UNCHANGED <<urlVars, github_url, raw_url, envVars, concVars>>

-----------------------------------------------------------------------------
(* Spec: one request, from its arrival to its response *)

Fields == {"github_url", "project_name"}

Init ==
  /\ IdleUrl
  /\ VM_IP \in BOOLEAN
  /\ VM_KEY_PATH \in BOOLEAN
  /\ VM_PASSWORD \in BOOLEAN
  /\ key_file_exists \in (IF VM_KEY_PATH THEN BOOLEAN ELSE {FALSE})
  /\ handler \in {"process_github", "clone_and_deploy"}
  /\ data \in SUBSET Fields
  /\ github_url \in (IF "github_url" \notin data THEN {None}
                     ELSE IF handler = "clone_and_deploy" THEN RepoSampleUrls
                     ELSE SampleUrls)
  /\ raw_url = None
  /\ pc = "start"
  /\ IdleRequest
  /\ IdleOp
  /\ IdleConc

Next ==
  \/ PG_Validate \/ PG_Fetch \/ PG_Inspect \/ PG_Respond
  \/ CD_Validate \/ CD_Respond
  \/ C_Begin \/ C_TryRSA \/ C_TryEd25519 \/ C_TryPassword \/ C_CheckConnected
  \/ C_OpenSftp \/ C_WriteTemp
  \/ C_DiagList \/ C_DiagProbe \/ C_DiagMkdir \/ C_Put \/ C_DiagStat
  \/ C_RemoveTemp \/ C_CloseSftp \/ C_CloseSsh
  \/ P_Begin \/ P_TryRSA \/ P_TryEd25519 \/ P_TryPassword \/ P_CheckConnected
  \/ P_Step \/ P_Close

Spec == Init /\ [][Next]_vars

-----------------------------------------------------------------------------
(* Properties of setup_github_pages and copy_to_vm, under Spec *)

\* The operation has returned to its handler.
Returned == pc \in {"return", "done"}

\* Step k exited non-zero and every step before it exited zero.
FirstNonZero(k) ==
  /\ k \in 1..Len(cmds)
  /\ cmds[k].outcome \in {"nonzero", "nonzero_unreadable"}
  /\ \A j \in 1..(k - 1) : cmds[j].outcome = "exit0"

\* Steps 1..k ran, each once and in plan order, and nothing ran after step k.
RanExactly(k) ==
  /\ Len(cmds) = k
  /\ \A i \in 1..k : cmds[i].cmd = i

\* C1 as stated: when step k of the deployment plan is the first to exit
\* non-zero, exactly steps 1..k have run, in order, the operation has returned
\* a failure, and the detail it reports is the stderr of step k.
C1_DetailIsAlwaysStderr ==
  \A k \in 1..NumCommands :
    (op = "setup_github_pages" /\ FirstNonZero(k)) =>
      /\ RanExactly(k)
      /\ Returned
      /\ ret.success = FALSE
      /\ ret.message = MSG_CMD_FAILED
      /\ ret.detail = CommandError(k)

\* C1 (amended): when step k of the deployment plan is the first to exit
\* non-zero, exactly steps 1..k have run, in order, no later step ever runs,
\* and the operation has returned a failure.  The detail is the stderr of
\* step k when that stderr reads and decodes; when reading or decoding it
\* raises, the failure carries that exception instead.  It is never the
\* stderr of another step.
C1_FailFast ==
  \A k \in 1..NumCommands :
    (op = "setup_github_pages" /\ FirstNonZero(k)) =>
      /\ RanExactly(k)
      /\ Returned
      /\ ret.success = FALSE
      /\ IF cmds[k].outcome = "nonzero"
         THEN ret.message = MSG_CMD_FAILED /\ ret.detail = CommandError(k)
         ELSE ret.message = MSG_PAGES_ERROR /\ ret.detail = Exc("stderr.read")

\* Step 3 failed after steps 1 and 2 succeeded, and its stderr was reported.
C1_Witness ==
  /\ op = "setup_github_pages"
  /\ FirstNonZero(3)
  /\ Len(cmds) = 3
  /\ pc = "done"
  /\ ret.detail = CommandError(3)

\* C2 as stated: when copy_to_vm or setup_github_pages has returned, on any
\* exit path, neither the transport nor the file-transfer sub-channel it
\* opened is still open.
C2_SessionClosedOnReturn ==
  (op \in {"copy_to_vm", "setup_github_pages"} /\ Returned) =>
    (ssh # "open" /\ sftp # "open")

\* C3 as stated: when copy_to_vm has returned, the temporary local file it
\* created does not exist, whatever the transfer and the diagnostics did.
C3_TempFileGoneOnReturn ==
  (op = "copy_to_vm" /\ Returned) => temp = "absent"

\* The session was open and the temp file written: the diagnostics began.
TempWritten == op = "copy_to_vm" /\ cmds # <<>>

\* C4 as stated: once the session is open and the temp file is written,
\* copy_to_vm returns success if and only if sftp.put succeeded.
C4_SuccessIffPut ==
  (TempWritten /\ Returned) => (ret.success <=> put = "ok")

\* C4 (amended): once the session is open and the temp file is written, the
\* transfer is attempted whatever the diagnostic steps did; copy_to_vm returns
\* success only if sftp.put succeeded; and it returns success whenever
\* sftp.put succeeded and closing the sub-channel and the transport raised
\* nothing.  No diagnostic outcome changes the result.
C4_TransferDecides ==
  (TempWritten /\ Returned) =>
    /\ put # "none"
    /\ ret.success => put = "ok"
    /\ (put = "ok" /\ sftp = "closed" /\ ssh = "closed") => ret.success
    /\ (put # "ok" /\ sftp = "closed" /\ ssh = "closed") =>
         ret.message \in {MSG_SFTP_IOERROR, MSG_SFTP_ERROR}

\* Every diagnostic step failed and the transfer succeeded: the result is
\* success.
C4_Witness ==
  /\ TempWritten /\ pc = "done"
  /\ Len(cmds) = 2
  /\ \A i \in 1..Len(cmds) : cmds[i].outcome = "raise"
  /\ put = "ok"
  /\ ret.success

\* The operation reported that every authentication method was exhausted.
AuthExhausted ==
  /\ ret.success = FALSE
  /\ ret.message \in {MSG_AUTH_FAILED, MSG_PAGES_AUTH_FAILED}

\* C5 as stated: with no key path and a password configured, an operation
\* that has returned made exactly one connection attempt, with the password,
\* and reported the all-methods-exhausted failure if and only if that attempt
\* failed; in copy_to_vm and in setup_github_pages.
C5_PasswordOnly ==
  (/\ op \in {"copy_to_vm", "setup_github_pages"}
   /\ VM_IP /\ ~VM_KEY_PATH /\ VM_PASSWORD
   /\ Returned) =>
    /\ Len(attempts) = 1
    /\ attempts[1].method = "password"
    /\ AuthExhausted <=> attempts[1].outcome # "connected"

Rank(method) ==
  CASE method = "rsa" -> 1
    [] method = "ed25519" -> 2
    [] method = "password" -> 3

\* The operation is past its password step.
PastAuth == op # "none" /\ pc \notin {"c_begin", "c_rsa", "c_ed25519", "c_password",
                                     "p_begin", "p_rsa", "p_ed25519", "p_password"}

\* C6: attempts are made in the order RSA key, Ed25519 key, password; none is
\* made after one has connected; Ed25519 only right after a failed RSA
\* attempt; the password only after both key attempts failed or with no key
\* path configured; and after two failed key attempts a configured password
\* is still tried.
C6_AttemptOrder ==
  LET n == Len(attempts)
  IN  /\ \A i, j \in 1..n : i < j => Rank(attempts[i].method) < Rank(attempts[j].method)
      /\ \A i \in 1..(n - 1) : attempts[i].outcome # "connected"
      /\ \A i \in 1..n :
           /\ attempts[i].method = "rsa" => VM_KEY_PATH
           /\ attempts[i].method = "ed25519" => (i = 2 /\ attempts[1].method = "rsa")
           /\ attempts[i].method = "password" =>
                IF VM_KEY_PATH
                THEN i = 3 /\ attempts[1].method = "rsa" /\ attempts[2].method = "ed25519"
                ELSE i = 1
      /\ (/\ PastAuth /\ VM_PASSWORD /\ n >= 2
          /\ attempts[2].method = "ed25519"
          /\ attempts[2].outcome # "connected") =>
           (n = 3 /\ attempts[3].method = "password")

\* Both key attempts failed and the password connected.
C6_Witness ==
  /\ Len(attempts) = 3
  /\ attempts[1].outcome = "load_error"
  /\ attempts[2].outcome = "connect_error"
  /\ attempts[3].method = "password"
  /\ attempts[3].outcome = "connected"
  /\ pc = "done"

\* C13: within one operation nothing is retried: each credential method is
\* attempted at most once, each remote command (each step of the deployment
\* plan) is run at most once, and once the transfer has been attempted,
\* whatever its outcome, control never stands before the transfer again.
C13_NoRetry ==
  /\ \A i, j \in 1..Len(attempts) :
       i # j => attempts[i].method # attempts[j].method
  /\ \A i, j \in 1..Len(cmds) : i # j => cmds[i].cmd # cmds[j].cmd
  /\ Len(cmds) <= NumCommands
  /\ put # "none" =>
       pc \in {"c_diag_stat", "c_remove_temp", "c_close_sftp", "c_close_ssh",
               "return", "done"}

\* All three credential methods were tried, the third connected, and the
\* whole plan ran, each step once.
C13_Witness ==
  /\ op = "setup_github_pages"
  /\ Len(attempts) = 3
  /\ attempts[3].outcome = "connected"
  /\ Len(cmds) = NumCommands
  /\ pc = "done"
  /\ ret.success

\* The operation ran into an I/O failure: every credential attempt failed; the
\* sub-channel did not open; the temp file was not (wholly) written; the
\* transfer failed; a step of the plan failed; or, in the cleanup, removing
\* the temp file or closing the sub-channel or the transport raised.
IOFailure ==
  \/ ~connected /\ attempts # <<>>
  \/ op = "copy_to_vm" /\ connected /\
       \/ sftp = "none"
       \/ temp = "partial"
       \/ put \in {"ioerror", "error"}
       \/ put # "none" /\ (temp # "absent" \/ sftp = "open" \/ ssh = "open")
  \/ op = "setup_github_pages" /\
       \/ \E i \in 1..Len(cmds) : cmds[i].outcome # "exit0"
       \/ Len(cmds) = NumCommands /\ ssh = "open"

\* C14 as stated: an operation that ran into any I/O failure, a failure of
\* the authentication or of the cleanup included, has returned success=false
\* with a message that carries the text of the cause.
C14_EveryFailureCarriesCause ==
  (op \in {"copy_to_vm", "setup_github_pages"} /\ Returned /\ IOFailure) =>
    (ret.success = FALSE /\ ret.detail # <<>>)

\* The failure results whose message is fixed text, with no cause appended.
FixedMessages == {MSG_NO_IP, MSG_KEY_MISSING, MSG_AUTH_FAILED, MSG_PAGES_AUTH_FAILED}

\* C14 (amended): an operation always ends by returning a result, and it
\* returns success only when it connected, every decisive step succeeded and
\* the session closed without an exception.  A failure after the session was
\* established carries the text of its cause: the exception of the call that
\* failed, or the stderr of the failed plan step.  A failure to establish the
\* session returns a fixed message without the cause (in setup_github_pages a
\* failed password attempt carries its exception).  A failure to remove the
\* temp file is swallowed and changes nothing of the result.
C14_FailuresTranslated ==
  (op \in {"copy_to_vm", "setup_github_pages"} /\ Returned) =>
    /\ ret.message # ""
    /\ ret.success =>
         /\ connected /\ ssh = "closed"
         /\ op = "copy_to_vm" => (temp # "partial" /\ put = "ok" /\ sftp = "closed")
         /\ op = "setup_github_pages" =>
              /\ Len(cmds) = NumCommands
              /\ \A i \in 1..Len(cmds) : cmds[i].outcome = "exit0"
    /\ (~ret.success /\ connected) =>
         (ret.detail # <<>> /\ ret.message \notin FixedMessages)
    /\ (~ret.success /\ ~connected) =>
         \/ ret.message \in FixedMessages /\ ret.detail = <<>>
         \/ /\ op = "setup_github_pages"
            /\ ret.message = MSG_PAGES_ERROR /\ ret.detail = Exc("connect")
    /\ (op = "copy_to_vm" /\ connected /\ sftp = "none") =>
         ret.detail = Exc("open_sftp")
    /\ temp = "partial" => ret.detail = Exc("write")
    /\ (put \in {"ioerror", "error"} /\ sftp = "closed" /\ ssh = "closed") =>
         ret.detail = Exc("put")
    /\ (put # "none" /\ sftp = "open") => ret.detail = Exc("sftp.close")
    /\ (put # "none" /\ sftp = "closed" /\ ssh = "open") =>
         ret.detail = Exc("ssh.close")

\* The transfer raised, removing the temp file failed too, and the result is
\* the failure of the transfer with its exception.
C14_Witness ==
  /\ op = "copy_to_vm" /\ pc = "done"
  /\ put = "error"
  /\ temp = "present"
  /\ ret = [success |-> FALSE, message |-> MSG_SFTP_ERROR, detail |-> Exc("put")]

\* C15 as stated: with a key path configured and the key file missing, an
\* operation that has begun has returned the key-file-missing failure and has
\* made no attempt, with a key or with the password; in copy_to_vm and in
\* setup_github_pages.
C15_KeyFileMissing ==
  (/\ op \in {"copy_to_vm", "setup_github_pages"}
   /\ pc \notin {"c_begin", "p_begin"}
   /\ VM_IP /\ VM_KEY_PATH /\ ~key_file_exists) =>
    /\ attempts = <<>>
    /\ Returned
    /\ ret = [success |-> FALSE, message |-> MSG_KEY_MISSING, detail |-> <<>>]

\* C16 as stated: every connection attempt of either operation is made with
\* a finite timeout.
C16_AttemptsBounded ==
  \A i \in 1..Len(attempts) : attempts[i].timeout # <<>>

\* C20: while copy_to_vm has no session it has created no temp file, opened
\* no sub-channel, run no remote command and started no transfer, and once
\* past the authentication it has returned a failure: the host is not set,
\* the key file is missing, or no credential method connected.  With neither
\* a key path nor a password configured it makes no connection attempt.
C20_NoSessionNoEffect ==
  (op = "copy_to_vm" /\ ~connected) =>
    /\ temp = "absent" /\ sftp = "none" /\ cmds = <<>> /\ put = "none"
    /\ ssh \in {"none", "new"}
    /\ \A i \in 1..Len(attempts) : attempts[i].outcome # "connected"
    /\ (~VM_KEY_PATH /\ ~VM_PASSWORD) => attempts = <<>>
    /\ (~VM_IP \/ (VM_KEY_PATH /\ ~key_file_exists)) => attempts = <<>>
    /\ pc \in {"c_begin", "c_rsa", "c_ed25519", "c_password", "c_check",
               "return", "done"}
    /\ Returned =>
         /\ ret.success = FALSE
         /\ ret.message \in {MSG_NO_IP, MSG_KEY_MISSING, MSG_AUTH_FAILED}

\* Three credential methods configured, all three failed: copy_to_vm
\* returned the authentication failure and touched nothing else.
C20_Witness ==
  /\ op = "copy_to_vm" /\ pc = "done"
  /\ ~connected
  /\ Len(attempts) = 3
  /\ ret.message = MSG_AUTH_FAILED
  /\ temp = "absent" /\ cmds = <<>> /\ put = "none"

-----------------------------------------------------------------------------
(* Properties of process_github, under Spec *)

\* The payload holds a marker, all of it within the first kilobyte.
MarkerInFirstKilobyte ==
  /\ content.marker \in {DOCTYPE, HTML_TAG}
  /\ content.at + MarkerLen(content.marker) <= PREVIEW_BYTES

\* C19: when the fetched payload holds an HTML document marker within its
\* first kilobyte, whatever content type the fetch declared, process_github
\* answers with the unexpected-HTML error and copy_to_vm is never called: no
\* session, no temp file, no transfer.
C19_MarkerNeverDelivered ==
  (handler = "process_github" /\ MarkerInFirstKilobyte) =>
    /\ pc \in {"inspect", "done"}
    /\ op = "none" /\ ssh = "none" /\ sftp = "none"
    /\ attempts = <<>> /\ temp = "absent" /\ put = "none"
    /\ pc = "done" => response = [status |-> 400, body |-> MSG_HTML, example |-> FALSE]

\* A payload declared application/octet-stream whose "<html" ends with the
\* last byte of the first kilobyte was refused.
C19_Witness ==
  /\ handler = "process_github"
  /\ content_type = <<"application/octet-stream">>
  /\ content = [marker |-> HTML_TAG, at |-> PREVIEW_BYTES - 5]
  /\ pc = "done"
  /\ response.body = MSG_HTML


\* C17 as stated: the filename handed to copy_to_vm is non-empty and holds
\* no path separator, for every URL convert_to_raw_url resolved, the raw-host
\* URLs it passes through unchanged included.
C17_FilenameIsBasename ==
  op = "copy_to_vm" =>
    /\ filename # <<>>
    /\ \A i \in 1..Len(filename) : filename[i] # "/"


\* The fetch declared the payload to be text/html, with or without a charset.
DeclaredHtml ==
  content_type \in { <<"text/", "html">>, <<"text/", "html", "; charset=utf-8">> }

\* C8: when the fetched payload's declared content type is text/html,
\* process_github never reaches copy_to_vm (no session, no temp file, no
\* transfer) and the request ends with the unexpected-HTML error.
C8_HtmlNeverDelivered ==
  (handler = "process_github" /\ DeclaredHtml) =>
    /\ pc \in {"inspect", "done"}
    /\ op = "none" /\ ssh = "none" /\ sftp = "none"
    /\ attempts = <<>> /\ temp = "absent" /\ put = "none"
    /\ pc = "done" => response = [status |-> 400, body |-> MSG_HTML, example |-> FALSE]

\* A text/html payload with a charset and no HTML marker in its first
\* kilobyte was refused.
C8_Witness ==
  /\ handler = "process_github"
  /\ content_type = <<"text/", "html", "; charset=utf-8">>
  /\ ~html_marker
  /\ pc = "done"
  /\ response.body = MSG_HTML

-----------------------------------------------------------------------------
(* Properties of clone_and_deploy, under Spec *)

\* http(s)://github.com/{owner}/{repo}, and the same with one trailing slash.
PlainRepoUrls ==
  { MakeUrl(s, WEB_HOST, <<<<o>>, <<r>>>>, FALSE) :
      s \in Schemes, o \in OwnerWords, r \in RepoWords }

AcceptedRepoUrls == PlainRepoUrls \cup { u \o <<"/">> : u \in PlainRepoUrls }

\* Some piece of segs is a name: the pieces add a path segment.
HasSegment(segs) == \E i \in 1..Len(segs) : segs[i] # <<>>

\* An accepted URL with one or more path segments appended to it.
ExtendedRepoUrls ==
  { u \o PathOf(extra) :
      u \in AcceptedRepoUrls,
      extra \in {e \in SeqsUpTo(Pieces, 3) : HasSegment(e)} }

\* clone_and_deploy answered that the repository URL is invalid.
RepoUrlRejected ==
  /\ pc = "done"
  /\ response = [status |-> 400, body |-> MSG_INVALID_REPO, example |-> TRUE]

\* C12: a clone-and-deploy request carrying both fields is passed on to
\* setup_github_pages when its URL is http(s)://github.com/{owner}/{repo} or
\* that URL with one trailing slash, and only then; a URL made by appending
\* path segments to such a URL, and a URL on any other host, is rejected; and
\* a rejected request has opened no session.
C12_RepoUrlValidation ==
  (handler = "clone_and_deploy" /\ Fields \subseteq data /\ pc # "start") =>
    /\ github_url \in AcceptedRepoUrls <=> op = "setup_github_pages"
    /\ github_url \notin AcceptedRepoUrls <=> RepoUrlRejected
    /\ github_url \in ExtendedRepoUrls => RepoUrlRejected
    /\ urlparse(github_url).netloc # WEB_HOST => RepoUrlRejected
    /\ RepoUrlRejected =>
         op = "none" /\ ssh = "none" /\ attempts = <<>> /\ cmds = <<>>

\* A repository URL with a trailing slash and one more segment was rejected.
C12_Witness ==
  /\ handler = "clone_and_deploy"
  /\ github_url = MakeUrl("https:", WEB_HOST, <<seg_a, seg_a, <<>>, seg_a>>, FALSE)
  /\ github_url \in ExtendedRepoUrls
  /\ RepoUrlRejected
  /\ ssh = "none"

-----------------------------------------------------------------------------
(* Properties of both handlers, under Spec *)

\* process_github cannot resolve the URL: parsing it fails, or the resolver
\* returns no URL.
Unresolvable(url) == urlparse_raises(url) \/ convert_to_raw_url(url) = None

\* The request fails validation.
ValidationFails ==
  \/ /\ handler = "process_github"
     /\ "github_url" \notin data \/ Unresolvable(github_url)
  \/ /\ handler = "clone_and_deploy"
     /\ ~(Fields \subseteq data) \/ github_url \notin AcceptedRepoUrls

\* C18 as stated: a request that fails validation (a missing field, a URL
\* process_github cannot resolve, a repository URL clone_and_deploy does not
\* accept) makes no fetch, opens no session, writes no temp file and runs no
\* remote command, and ends with a 400 error that includes an example of
\* valid input.
C18_ValidationFirst ==
  ValidationFails =>
    /\ ~fetched
    /\ op = "none" /\ ssh = "none" /\ attempts = <<>>
    /\ temp = "absent" /\ cmds = <<>> /\ put = "none"
    /\ pc \in {"start", "done"}
    /\ pc = "done" => (response.status = 400 /\ response.example)

-----------------------------------------------------------------------------
(* Properties of convert_to_raw_url, under SpecURL *)

\* The path of the generated URL, as written.
WrittenPath == PathOf(u_segs)

\* The path holds "/tree/".
ContainsTreeDir(path) ==
  \E i \in 1..Len(path) :
    i + 2 <= Len(path) /\ path[i] = "/" /\ path[i + 1] = "tree" /\ path[i + 2] = "/"

\* The pieces between the first and the last non-empty one: the path's
\* segments once its leading and trailing slashes are dropped.
RECURSIVE DropLeadingEmpty(_)
DropLeadingEmpty(segs) ==
  IF segs # <<>> /\ Head(segs) = <<>> THEN DropLeadingEmpty(Tail(segs)) ELSE segs

RECURSIVE DropTrailingEmpty(_)
DropTrailingEmpty(segs) ==
  IF segs # <<>> /\ segs[Len(segs)] = <<>>
  THEN DropTrailingEmpty(SubSeq(segs, 1, Len(segs) - 1))
  ELSE segs

Segments == DropTrailingEmpty(DropLeadingEmpty(u_segs))

\* owner/repo/blob/branch/path...: at least 5 segments, the third one "blob".
BlobShaped == Len(Segments) >= 5 /\ Segments[3] = <<"blob">>

\* C9 as stated: for every URL whose path contains "/tree/", whatever its
\* host and its other segments, convert_to_raw_url returns no URL.
C9_TreeAlwaysFails ==
  (u_pc = "resolved" /\ ContainsTreeDir(WrittenPath)) => raw_url = None

\* C9 (amended): for every URL whose path contains "/tree/",
\* convert_to_raw_url returns no URL, unless the host is the raw-content host
\* (the URL is returned unchanged) or the host is the web host and the path
\* has the blob shape (segment index 2 is "blob", "tree" being a later
\* segment).  In particular every web-host URL with "tree" at segment
\* index 2 fails.
C9_TreeFails ==
  (/\ u_pc = "resolved"
   /\ ContainsTreeDir(WrittenPath)
   /\ u_host # RAW_HOST
   /\ ~(u_host = WEB_HOST /\ BlobShaped)) => raw_url = None

\* A web-host URL owner/repo/tree/branch/path was refused.
C9_Witness ==
  /\ u_pc = "resolved"
  /\ u_host = WEB_HOST
  /\ Len(Segments) >= 5
  /\ Segments[3] = <<"tree">>
  /\ Segments[1] # <<>> /\ Segments[2] # <<>> /\ Segments[4] # <<>>
  /\ raw_url = None

\* C10: for every web-host URL whose path is owner/repo/blob/branch/path...
\* (at least 5 segments, segment index 2 equal to "blob"),
\* convert_to_raw_url returns exactly
\* https://raw.githubusercontent.com/owner/repo/branch/path..., with the same
\* owner, repo, branch and path segments in the same order.
C10_BlobToRaw ==
  (u_pc = "resolved" /\ u_host = WEB_HOST /\ BlobShaped) =>
    raw_url = <<"https:", "//", RAW_HOST>>
                \o PathOf(<<Segments[1], Segments[2], Segments[4]>>
                            \o SubSeq(Segments, 5, Len(Segments)))

\* An http URL with a query, a trailing slash and a two-segment file path
\* was rewritten.
C10_Witness ==
  /\ u_pc = "resolved"
  /\ u_host = WEB_HOST
  /\ u_scheme = "http:"
  /\ u_query
  /\ u_segs = <<<<"a">>, <<"tree">>, <<"blob">>, <<"blob">>, <<"a">>, <<>>>>
  /\ raw_url = <<"https:", "//", RAW_HOST, "/", "a", "/", "tree", "/", "blob", "/", "a">>

\* C11: convert_to_raw_url is idempotent on what it returns: whenever it
\* returned a URL u for an input, resolving u again returns u unchanged; and
\* every URL whose host is the raw-content host is returned unchanged.
C11_Idempotent ==
  /\ u_pc = "again" => u_again = raw_url
  /\ (u_pc \in {"resolved", "again"} /\ u_host = RAW_HOST) => raw_url = github_url

\* A blob URL was rewritten to a raw-host URL, and resolving that URL again
\* returned it unchanged.
C11_Witness ==
  /\ u_pc = "again"
  /\ u_host = WEB_HOST
  /\ BlobShaped
  /\ raw_url # github_url
  /\ urlparse(raw_url).netloc = RAW_HOST
  /\ u_again = raw_url

-----------------------------------------------------------------------------
(* SpecConc: the temp-file steps of copy_to_vm in concurrent requests.      *)
(* The server handles each request in a thread of its own; temp_path is     *)
(* os.path.join(tempfile.gettempdir(), filename), a path of the directory   *)
(* all requests share.  Request r fetched payload r.                        *)

\* with open(temp_path, write_mode) as f: f.write(file_content)
T_Write(r) ==
  /\ c_pc[r] = "write"
  /\ fs' = [fs EXCEPT ![c_filename[r]] = r]
  /\ c_pc' = [c_pc EXCEPT ![r] = "put"]
  /\ UNCHANGED <<c_filename, c_put, c_sent>>
  /\ UNCHANGED <<urlVars, github_url, raw_url, envVars, reqVars, opVars>>

\* sftp.put(temp_path, destination): it sends what the file holds now; a
\* missing file, or a failing transfer, raises IOError.
T_Put(r) ==
  /\ c_pc[r] = "put"
  /\ IF fs[c_filename[r]] = 0
     THEN c_put' = [c_put EXCEPT ![r] = "ioerror"] /\ UNCHANGED c_sent
     ELSE \/ /\ c_put' = [c_put EXCEPT ![r] = "ok"]
             /\ c_sent' = [c_sent EXCEPT ![r] = fs[c_filename[r]]]
          \/ /\ c_put' = [c_put EXCEPT ![r] = "ioerror"]
             /\ UNCHANGED c_sent
  /\ c_pc' = [c_pc EXCEPT ![r] = "remove"]
  /\ UNCHANGED <<c_filename, fs>>
  /\ UNCHANGED <<urlVars, github_url, raw_url, envVars, reqVars, opVars>>

\* finally: os.remove(temp_path); the exception for a missing file is swallowed.
T_Remove(r) ==
  /\ c_pc[r] = "remove"
  /\ fs' = [fs EXCEPT ![c_filename[r]] = 0]
  /\ c_pc' = [c_pc EXCEPT ![r] = "done"]
  /\ UNCHANGED <<c_filename, c_put, c_sent>>
  /\ UNCHANGED <<urlVars, github_url, raw_url, envVars, reqVars, opVars>>

InitConc ==
  /\ c_pc = [r \in Requests |-> "write"]
  /\ c_filename \in [Requests -> Filenames]
  /\ fs = [f \in Filenames |-> 0]
  /\ c_put = [r \in Requests |-> "none"]
  /\ c_sent = [r \in Requests |-> 0]
  /\ IdleUrl
  /\ github_url = None /\ raw_url = None
  /\ VM_IP = TRUE /\ VM_KEY_PATH = FALSE /\ VM_PASSWORD = TRUE
  /\ key_file_exists = FALSE
  /\ handler = "none" /\ data = {} /\ pc = "idle"
  /\ IdleRequest
  /\ IdleOp

NextConc == \E r \in Requests : T_Write(r) \/ T_Put(r) \/ T_Remove(r)

SpecConc == InitConc /\ [][NextConc]_vars

\* C7 as stated: under every interleaving of the temp-file write, the
\* transfer and the temp-file removal of concurrent requests, also when they
\* resolve to the same filename, each request transfers exactly its own
\* payload, and the file a request wrote is still there, as it wrote it, when
\* the request transfers it.
C7_RequestsIsolated ==
  \A r \in Requests :
    /\ c_put[r] = "ok" => c_sent[r] = r
    /\ c_pc[r] = "put" => fs[c_filename[r]] = r

=============================================================================
